---- MODULE Spec2Model ----
(***************************************************************************)
(* Model of crates/wasm/src/lib.rs: the host-facing entry points           *)
(* registerDynamicLanguage, parse and dumpPattern, the process-wide        *)
(* language registry they share, and the reconciler dump_pattern_node.     *)
(*                                                                         *)
(* Strings are sequences of one-character strings.  Option<T> is a         *)
(* sequence of length 0 (None) or 1 (Some).                                *)
(***************************************************************************)
EXTENDS Naturals, Sequences, FiniteSets, TLC

VARIABLES
  registry,   \* the process-wide language registry: name -> descriptor
  completed,  \* history: the names some completed registration has named
  pending,    \* the registrations suspended at their await
  docs,       \* the Documents (SgRoot) the host holds
  call,       \* the dumpPattern call the host is about to make, if any
  last        \* the last call that returned, with its Result

vars == <<registry, completed, pending, docs, call, last>>

(* ------------------------------ bounds -------------------------------- *)

\* longest source / pattern text
MaxLen == 2
\* most children of one concrete node
MaxKids == 2
\* most Documents the host keeps alive
MaxDocs == 1
\* most registrations suspended at their await
MaxPending == 1

(* ------------------------------ values -------------------------------- *)

None == <<>>
Some(x) == <<x>>
Opt(S) == {None} \cup {Some(x) : x \in S}

\* Result<T, JsError>
Ok(v) == [ok |-> TRUE, value |-> Some(v), error |-> ""]
Err(e) == [ok |-> FALSE, value |-> None, error |-> e]

Chars == {"$", "A", "_", "#", "\n"}
NameChars == {"A", "_"}
Texts == UNION {[1..n -> Chars] : n \in 0..MaxLen}

Names == {"json", "css"}
NoLang == [libraryPath |-> "", expandoChar |-> ""]
WasmLangInfo == {[libraryPath |-> "a.wasm", expandoChar |-> "#"],
                 [libraryPath |-> "b.wasm", expandoChar |-> "_"]}

(* ---------------------- language (wasm_lang) -------------------------- *)

\* <WasmLang as FromStr>::from_str: the name is looked up in the registry
WasmLang_from_str(reg, name) ==
  IF reg[name] = NoLang THEN None ELSE Some([name |-> name, info |-> reg[name]])

expando_char(lang) == lang.info.expandoChar

\* a `$` is a meta-variable sigil when the run of `$` it belongs to is
\* directly followed by a name character
RECURSIVE IsSigil(_, _)
IsSigil(s, i) ==
  /\ i <= Len(s)
  /\ s[i] = "$"
  /\ i < Len(s)
  /\ \/ s[i + 1] \in NameChars
     \/ IsSigil(s, i + 1)

\* Language::pre_process_pattern: every sigil becomes the expando character
pre_process_pattern(lang, query) ==
  [i \in 1..Len(query) |-> IF IsSigil(query, i) THEN expando_char(lang) ELSE query[i]]

(* ------------------- concrete syntax trees (doc) ---------------------- *)

Leaf(lo, hi) ==
  IF hi < lo
  THEN [kind |-> ";", named |-> FALSE, missing |-> TRUE, lo |-> lo, hi |-> hi, children |-> <<>>]
  ELSE [kind |-> "identifier", named |-> TRUE, missing |-> FALSE, lo |-> lo, hi |-> hi, children |-> <<>>]

\* the ways of cutting lo..hi into k >= 1 consecutive (possibly empty) spans
RECURSIVE Splits(_, _, _)
Splits(lo, hi, k) ==
  IF k = 1 THEN {<<[lo |-> lo, hi |-> hi]>>}
  ELSE UNION {{<<[lo |-> lo, hi |-> p]>> \o rest : rest \in Splits(p + 1, hi, k - 1)} : p \in (lo - 1)..hi}

Node(kind, lo, hi, children) ==
  [kind |-> kind, named |-> TRUE, missing |-> FALSE, lo |-> lo, hi |-> hi, children |-> children]

\* a node over lo..hi: a leaf, or (over a non-empty span) a "pair" of two leaves
Inner(lo, hi) ==
  {Leaf(lo, hi)} \cup
  (IF hi < lo \/ MaxKids < 2 THEN {} ELSE
   {Node("pair", lo, hi, <<Leaf(lo, p), Leaf(p + 1, hi)>>) : p \in (lo - 1)..hi})

\* the trees the parser can return for a text of n characters: a "program"
\* of at most MaxKids children in source order, the first of them possibly
\* compound
ParseTrees(n) ==
  {Node("program", 1, n, <<>>)} \cup
  UNION {UNION {{Node("program", 1, n,
                      <<first>> \o [i \in 1..(k - 1) |-> Leaf(sp[i + 1].lo, sp[i + 1].hi)]) :
                   first \in Inner(sp[1].lo, sp[1].hi)}
                : sp \in Splits(1, n, k)}
         : k \in 1..MaxKids}

RECURSIVE NodesOf(_)
NodesOf(n) == {n} \cup UNION {NodesOf(n.children[i]) : i \in 1..Len(n.children)}

\* tree-sitter's Point of a character offset: rows are ended by "\n"
RECURSIVE PointAt(_, _)
PointAt(src, off) ==
  IF off = 0 THEN [row |-> 0, column |-> 0]
  ELSE IF src[off] = "\n" THEN [row |-> PointAt(src, off - 1).row + 1, column |-> 0]
  ELSE [row |-> PointAt(src, off - 1).row, column |-> PointAt(src, off - 1).column + 1]

\* WasmDoc::try_new(src, lang): the Document of the tree the parser returned
WasmDoc_try_new(src, lang, tree) == [src |-> src, lang |-> lang, tree |-> tree]

\* CoreNode: a node handle borrows its Document
CoreNode(doc, inner) == [doc |-> doc, inner |-> inner]

node_text(node) == SubSeq(node.doc.src, node.inner.lo, node.inner.hi)
node_kind(node) == node.inner.kind
node_lang(node) == node.doc.lang
node_children(node) == [i \in 1..Len(node.inner.children) |-> CoreNode(node.doc, node.inner.children[i])]
is_missing(node) == node.inner.missing
start_position(node) == PointAt(node.doc.src, node.inner.lo - 1)
end_position(node) == PointAt(node.doc.src, node.inner.hi)

(* -------------------- pattern compiler and matcher -------------------- *)

\* Language::extract_meta_var on pre-processed text: expando, then a name
extract_meta_var(lang, text) ==
  /\ Len(text) >= 2
  /\ text[1] = expando_char(lang)
  /\ \A i \in 2..Len(text) : text[i] \in NameChars

\* the matcher-tree of a parsed pattern node
RECURSIVE PatternNode(_)
PatternNode(node) ==
  IF extract_meta_var(node_lang(node), node_text(node))
  THEN [variant |-> "MetaVar", is_named |-> TRUE, children |-> <<>>]
  ELSE IF Len(node.inner.children) = 0
  THEN [variant |-> "Terminal", is_named |-> node.inner.named, children |-> <<>>]
  ELSE [variant |-> "Internal", is_named |-> TRUE,
        children |-> [i \in 1..Len(node.inner.children) |-> PatternNode(node_children(node)[i])]]

Strictnesses == {"cst", "smart", "ast", "relaxed", "signature", "template"}

\* <MatchStrictness as FromStr>::from_str
MatchStrictness_from_str(s) == IF s \in Strictnesses THEN Some(s) ELSE None

\* Pattern::try_new / Pattern::contextual: the matcher-tree of the pattern's
\* root node, with the default strictness
Pattern_new(root) == [node |-> PatternNode(root), strictness |-> "smart"]

\* the nodes a pattern can be rooted at: the whole parsed text, or with a
\* selector any node of the selector's kind
PatternRoots(tree, selector) ==
  IF selector = None THEN {tree} ELSE {m \in NodesOf(tree) : m.kind = selector[1]}

with_strictness(pat, strict) == [pat EXCEPT !.strictness = strict]

(* --------------------------- pattern tree ----------------------------- *)

\* line and column exchanged
PatternPos_swapped(p) == [line |-> p.column, column |-> p.row]

\* impl From<ts_types::Point> for PatternPos
PatternPos_from(p) == [line |-> p.row, column |-> p.column]

Min(a, b) == IF a <= b THEN a ELSE b

\* str::replace(from, to) for one-character from and to
replace(text, from, to) == [i \in 1..Len(text) |-> IF text[i] = from THEN to ELSE text[i]]

\* one pair short
zip_drop_last(xs, ys) == [i \in 1..(Min(Len(xs), Len(ys)) - 1) |-> <<xs[i], ys[i]>>]

\* Iterator::zip: pairs in order, as many as the shorter sequence has
zip(xs, ys) == [i \in 1..Min(Len(xs), Len(ys)) |-> <<xs[i], ys[i]>>]

\* the parser's missing flag ignored
kind_label_plain(node) == node_kind(node)

\* the kind label of dump_pattern_node
kind_label(node) ==
  IF is_missing(node) THEN "MISSING " \o node_kind(node) ELSE node_kind(node)

\* the PN::MetaVar arm of dump_pattern_node
MetaVarTree(node, kind) ==
  LET expando == expando_char(node_lang(node))
      text == replace(node_text(node), expando, "$")
  IN [kind |-> kind,
      start |-> PatternPos_from(start_position(node)),
      end |-> PatternPos_from(end_position(node)),
      is_named |-> TRUE,
      children |-> <<>>,
      text |-> Some(text),
      pattern |-> Some("MetaVar")]

\* the expando undo applied to a Terminal leaf too
TerminalTreeUndo(node, kind, is_named) ==
  [kind |-> kind,
   start |-> PatternPos_from(start_position(node)),
   end |-> PatternPos_from(end_position(node)),
   is_named |-> is_named,
   children |-> <<>>,
   text |-> Some(replace(node_text(node), expando_char(node_lang(node)), "$")),
   pattern |-> Some("Terminal")]

\* the PN::Terminal arm of dump_pattern_node
TerminalTree(node, kind, is_named) ==
  [kind |-> kind,
   start |-> PatternPos_from(start_position(node)),
   end |-> PatternPos_from(end_position(node)),
   is_named |-> is_named,
   children |-> <<>>,
   text |-> Some(node_text(node)),
   pattern |-> Some("Terminal")]

\* an Internal node that carries its span as text
InternalTreeWithText(node, kind, children) ==
  [kind |-> kind,
   start |-> PatternPos_from(start_position(node)),
   end |-> PatternPos_from(end_position(node)),
   is_named |-> TRUE,
   children |-> children,
   text |-> Some(node_text(node)),
   pattern |-> Some("Internal")]

\* the PN::Internal arm of dump_pattern_node, its children already dumped
InternalTree(node, kind, children) ==
  [kind |-> kind,
   start |-> PatternPos_from(start_position(node)),
   end |-> PatternPos_from(end_position(node)),
   is_named |-> TRUE,
   children |-> children,
   text |-> None,
   pattern |-> Some("Internal")]

RECURSIVE dump_pattern_node(_, _)
dump_pattern_node(node, pattern) ==
  LET kind == kind_label(node)
  IN CASE pattern.variant = "MetaVar" -> MetaVarTree(node, kind)
       [] pattern.variant = "Terminal" -> TerminalTree(node, kind, pattern.is_named)
       [] pattern.variant = "Internal" ->
            LET pairs == zip(pattern.children, node_children(node))
                children == [i \in 1..Len(pairs) |-> dump_pattern_node(pairs[i][2], pairs[i][1])]
            IN InternalTree(node, kind, children)

NoCall == [op |-> "none"]

(* ----------------------- registerDynamicLanguage ---------------------- *)

\* a deserialised `langs` map: NoLang marks a name the map does not have
LangMaps == [Names -> WasmLangInfo \cup {NoLang}]

\* WasmLang::register: every name of the map resolves to its descriptor
WasmLang_register(reg, langs) ==
  [n \in Names |-> IF langs[n] # NoLang THEN langs[n] ELSE reg[n]]

RegisterCall(langs, result) ==
  [op |-> "registerDynamicLanguage", langs |-> langs, result |-> result]

\* register_dynamic_language up to its await: a value that does not
\* deserialise is refused at once, a map starts loading its grammars
RegisterDynamicLanguage(langs) ==
  /\ IF langs = None
     THEN /\ last' = RegisterCall(langs, Err("DeserializeError"))
          /\ UNCHANGED pending
     ELSE /\ Cardinality(pending) < MaxPending
          /\ langs[1] \notin pending
          /\ pending' = pending \cup {langs[1]}
          /\ UNCHANGED last
  /\ UNCHANGED <<registry, completed, docs, call>>

\* a registration that keeps the descriptor a name already has
RegisterCompleteInsertOnly(langs) ==
  /\ langs \in pending
  /\ registry' = [n \in Names |-> IF registry[n] = NoLang THEN langs[n] ELSE registry[n]]
  /\ completed' = completed \cup {n \in Names : langs[n] # NoLang}
  /\ pending' = pending \ {langs}
  /\ last' = RegisterCall(Some(langs), Ok("undefined"))
  /\ UNCHANGED <<docs, call>>

\* register_dynamic_language from its await on: the grammars are loaded
RegisterComplete(langs) ==
  /\ langs \in pending
  /\ registry' = WasmLang_register(registry, langs)
  /\ completed' = completed \cup {n \in Names : langs[n] # NoLang}
  /\ pending' = pending \ {langs}
  /\ last' = RegisterCall(Some(langs), Ok("undefined"))
  /\ UNCHANGED <<docs, call>>

(* ------------------------------- parse -------------------------------- *)

\* one finished call of parse: its arguments, its Result, and at the time of
\* the call the names already registered and the names still loading
ParseCall(lang, src, before, loading, result) ==
  [op |-> "parse", lang |-> lang, src |-> src, before |-> before, loading |-> loading,
   result |-> result]

\* the source parsed before the language is resolved
parse_doc_first(reg, lang, src, tree) ==
  LET wl == WasmLang_from_str(reg, lang)
  IN IF tree = None THEN Err("ParseError")
     ELSE IF wl = None THEN Err("UnsupportedLanguage")
     ELSE Ok(WasmDoc_try_new(src, wl[1], tree[1]))

\* parse(lang, src), given what the parser returns (None: it fails)
parse(reg, lang, src, tree) ==
  LET wl == WasmLang_from_str(reg, lang)
  IN IF wl = None THEN Err("UnsupportedLanguage")
     ELSE IF tree = None THEN Err("ParseError")
     ELSE Ok(WasmDoc_try_new(src, wl[1], tree[1]))

\* the sources the host parses: the empty text
Sources == {t \in Texts : Len(t) = 0}

\* the host calls parse and keeps the SgRoot it gets
Parse(lang, src) ==
  /\ Cardinality(docs) < MaxDocs
  /\ \E tree \in Opt(ParseTrees(Len(src))) :
       LET r == parse(registry, lang, src, tree)
           loading == {n \in Names : \E m \in pending : m[n] # NoLang}
       IN /\ last' = ParseCall(lang, src, completed, loading, r)
          /\ docs' = IF r.ok THEN docs \cup {r.value[1]} ELSE docs
  /\ UNCHANGED <<registry, completed, pending, call>>

\* the host drops an SgRoot
FreeDoc(doc) ==
  /\ doc \in docs
  /\ docs' = docs \ {doc}
  /\ UNCHANGED <<registry, completed, pending, call, last>>

Init ==
  /\ registry = [n \in Names |-> NoLang]
  /\ completed = {}
  /\ pending = {}
  /\ docs = {}
  /\ call = None
  /\ last = NoCall

Next ==
  \/ \E langs \in Opt(LangMaps) : RegisterDynamicLanguage(langs)
  \/ \E langs \in pending : RegisterComplete(langs)
  \/ \E lang \in Names, src \in Sources : Parse(lang, src)
  \/ \E doc \in docs : FreeDoc(doc)

Spec == Init /\ [][Next]_vars

(* ---------------------------- dumpPattern ----------------------------- *)

\* one finished call of dumpPattern: its arguments, its Result, and how far
\* it got (the language it resolved, the pattern it compiled, whether the
\* matcher was run, the node the matcher found)
DumpCall(lang, pattern_str, selector, strictness, result, resolved, pat, matched, found) ==
  [op |-> "dumpPattern", lang |-> lang, pattern_str |-> pattern_str, selector |-> selector,
   strictness |-> strictness, result |-> result, resolved |-> resolved, pat |-> pat,
   matched |-> matched, found |-> found]

\* the strictness parsed only after the matcher has run
dump_pattern_match_first(lang, pattern_str, selector, strictness, wl, doc, pat0, mfound) ==
  IF mfound = None
  THEN DumpCall(lang, pattern_str, selector, strictness, Err("NoRootMatch"),
                wl, Some(pat0), TRUE, None)
  ELSE
  LET strict == IF strictness = None THEN Some(pat0.strictness)
                ELSE MatchStrictness_from_str(strictness[1])
  IN IF strict = None
     THEN DumpCall(lang, pattern_str, selector, strictness, Err("InvalidStrictness"),
                   wl, Some(pat0), TRUE, None)
     ELSE
  LET pat == with_strictness(pat0, strict[1])
      found == CoreNode(doc, mfound[1])
  IN DumpCall(lang, pattern_str, selector, strictness, Ok(dump_pattern_node(found, pat.node)),
              wl, Some(pat), TRUE, Some(found))

\* no match answered with the dump of the document's root
dump_pattern_root_fallback(lang, pattern_str, selector, strictness, wl, doc, pat0, mfound) ==
  LET strict == IF strictness = None THEN Some(pat0.strictness)
                ELSE MatchStrictness_from_str(strictness[1])
  IN IF strict = None
     THEN DumpCall(lang, pattern_str, selector, strictness, Err("InvalidStrictness"),
                   wl, Some(pat0), FALSE, None)
     ELSE
  LET pat == with_strictness(pat0, strict[1])
      found == IF mfound = None THEN CoreNode(doc, doc.tree) ELSE CoreNode(doc, mfound[1])
  IN DumpCall(lang, pattern_str, selector, strictness, Ok(dump_pattern_node(found, pat.node)),
              wl, Some(pat), TRUE, mfound)

\* dump_pattern from the compiled pattern pat0 on: the strictness, the
\* matcher (mfound is the node it finds, None: no match), the reconciliation
dump_pattern_compiled(lang, pattern_str, selector, strictness, wl, doc, pat0, mfound) ==
  LET strict == IF strictness = None THEN Some(pat0.strictness)
                ELSE MatchStrictness_from_str(strictness[1])
  IN IF strict = None
     THEN DumpCall(lang, pattern_str, selector, strictness, Err("InvalidStrictness"),
                   wl, Some(pat0), FALSE, None)
     ELSE
  LET pat == with_strictness(pat0, strict[1])
  IN IF mfound = None
     THEN DumpCall(lang, pattern_str, selector, strictness, Err("NoRootMatch"),
                   wl, Some(pat), TRUE, None)
     ELSE
  LET found == CoreNode(doc, mfound[1])
      tree_out == dump_pattern_node(found, pat.node)
  IN DumpCall(lang, pattern_str, selector, strictness, Ok(tree_out),
              wl, Some(pat), TRUE, Some(found))

\* dump_pattern(lang, pattern_str, selector, strictness), given what its
\* collaborators return: the parser's tree (None: it fails), the node the
\* pattern compiles to (None: it does not compile) and the node the matcher
\* finds (None: no match)
dump_pattern(reg, lang, pattern_str, selector, strictness, tree, proot, mfound) ==
  LET wl == WasmLang_from_str(reg, lang)
  IN IF wl = None
     THEN DumpCall(lang, pattern_str, selector, strictness, Err("UnsupportedLanguage"),
                   None, None, FALSE, None)
     ELSE
  LET processed == pre_process_pattern(wl[1], pattern_str)
  IN IF tree = None
     THEN DumpCall(lang, pattern_str, selector, strictness, Err("ParseError"),
                   wl, None, FALSE, None)
     ELSE
  LET doc == WasmDoc_try_new(processed, wl[1], tree[1])
  IN IF proot = None
     THEN DumpCall(lang, pattern_str, selector, strictness, Err("PatternCompileError"),
                   wl, None, FALSE, None)
     ELSE dump_pattern_compiled(lang, pattern_str, selector, strictness, wl, doc,
                                Pattern_new(CoreNode(doc, proot[1])), mfound)

Selectors == {None, Some("identifier")}
StrictnessArgs == {None, Some("template"), Some("not-a-real-level")}

DumpArgs == [lang : Names, pattern_str : Texts, selector : Selectors, strictness : StrictnessArgs]

\* the host calls dumpPattern
DumpPattern ==
  /\ call # None
  /\ \E tree \in Opt(ParseTrees(Len(call[1].pattern_str))) :
     \E proot \in (IF tree = None THEN {None} ELSE Opt(PatternRoots(tree[1], call[1].selector))) :
     \E mfound \in (IF tree = None THEN {None} ELSE Opt(NodesOf(tree[1]))) :
       last' = dump_pattern(registry, call[1].lang, call[1].pattern_str, call[1].selector,
                            call[1].strictness, tree, proot, mfound)
  /\ call' = None
  /\ UNCHANGED <<registry, completed, pending, docs>>

InitDump ==
  /\ registry \in {[n \in Names |-> IF n = "json" THEN i ELSE NoLang] : i \in WasmLangInfo}
  /\ completed = {"json"}
  /\ pending = {}
  /\ docs = {}
  /\ call \in {Some(a) : a \in DumpArgs}
  /\ last = NoCall

NextDump == DumpPattern

SpecDump == InitDump /\ [][NextDump]_vars

(* ------------------------------ claims -------------------------------- *)

IsDump == last.op = "dumpPattern"
Dumped == IsDump /\ last.result.ok
IsParse == last.op = "parse"

\* every (Output Tree node, Concrete Node, Pattern Node) of a reconciliation
RECURSIVE Triples(_, _, _)
Triples(out, node, pat) ==
  {[out |-> out, node |-> node, pat |-> pat]} \cup
  UNION {Triples(out.children[i], node_children(node)[i], pat.children[i]) :
           i \in 1..Min(Len(out.children), Min(Len(node_children(node)), Len(pat.children)))}

DumpTriples == Triples(last.result.value[1], last.found[1], last.pat[1].node)

\* the text the user wrote where the node lies
written(node) == SubSeq(last.pattern_str, node.inner.lo, node.inner.hi)

\* a meta-variable as the user writes it: the sigil, then a name
IsMetaVarText(w) ==
  /\ Len(w) >= 2
  /\ w[1] = "$"
  /\ \A i \in 2..Len(w) : w[i] \in NameChars

BadStrictness == IsDump /\ last.strictness = Some("not-a-real-level")

\* C1 as stated: dumpPattern with strictness "not-a-real-level" fails with
\* InvalidStrictness and returns no Output Tree for every language name and
\* pattern text, before any match attempt.
C1_Original ==
  BadStrictness =>
    /\ last.result.error = "InvalidStrictness"
    /\ last.result.value = None
    /\ ~last.matched

\* C1 amended: dumpPattern with strictness "not-a-real-level" never returns
\* an Output Tree and never runs the matcher; it fails with InvalidStrictness
\* exactly when the language resolved, the document was built and the pattern
\* compiled, and with the error of the earlier stage otherwise.
C1_StrictnessGating ==
  BadStrictness =>
    /\ ~last.result.ok
    /\ last.result.value = None
    /\ ~last.matched
    /\ (last.result.error = "InvalidStrictness") <=> (last.pat # None)
    /\ last.pat = None =>
         last.result.error \in {"UnsupportedLanguage", "ParseError", "PatternCompileError"}
    /\ (last.result.error = "UnsupportedLanguage") <=> (last.lang \notin completed)

C1_Witness ==
  /\ BadStrictness
  /\ last.result.error = "InvalidStrictness"
  /\ last.pat # None

RECURSIVE TreeSize(_)
TreeSize(t) == 1 + (LET RECURSIVE Sum(_)
                        Sum(i) == IF i = 0 THEN 0 ELSE TreeSize(t.children[i]) + Sum(i - 1)
                    IN Sum(Len(t.children)))

\* the number of (Pattern Node, Concrete Node) pairs the positional walk visits
RECURSIVE PairCount(_, _)
PairCount(node, pat) ==
  1 + (IF pat.variant # "Internal" THEN 0
       ELSE LET RECURSIVE Sum(_)
                Sum(i) == IF i = 0 THEN 0
                          ELSE PairCount(node_children(node)[i], pat.children[i]) + Sum(i - 1)
            IN Sum(Min(Len(pat.children), Len(node_children(node)))))

StrictnessParses ==
  last.strictness = None \/ MatchStrictness_from_str(last.strictness[1]) # None

C3_ParseNeedsRegistration ==
  /\ IsParse =>
       /\ (last.result.error = "UnsupportedLanguage") <=> (last.lang \notin last.before)
       /\ last.lang \notin last.before => last.result.value = None
       /\ last.result.ok => last.result.value[1].lang.name = last.lang
  /\ \A d \in docs : d.lang.name \in completed

\* a parse refused while a registration of its name is still loading
C3_Witness ==
  /\ IsParse
  /\ last.result.error = "UnsupportedLanguage"
  /\ last.result.value = None
  /\ last.lang \in last.loading

\* C4: a completing registration makes every name of its map resolve to the
\* map's descriptor, leaves the other names' entries alone, and leaves every
\* Document as it was.
C4_Upsert ==
  [][Cardinality(pending') < Cardinality(pending) =>
       /\ last'.op = "registerDynamicLanguage"
       /\ last'.result.ok
       /\ \A n \in Names :
            registry'[n] = IF last'.langs[1][n] # NoLang THEN last'.langs[1][n] ELSE registry[n]
       /\ docs' = docs]_vars

\* a name registered a second time with another descriptor, while a Document
\* built against the first is still held
C4_Witness ==
  /\ last.op = "registerDynamicLanguage"
  /\ last.result.ok
  /\ \E d \in docs :
       /\ last.langs[1][d.lang.name] # NoLang
       /\ registry[d.lang.name] = last.langs[1][d.lang.name]
       /\ d.lang.info # registry[d.lang.name]

\* C5: a Terminal leaf's captured text is the Concrete Node's source span,
\* unmodified, also when the span contains the expando character.
C5_TerminalTextUntouched ==
  Dumped =>
    \A t \in DumpTriples :
      t.pat.variant = "Terminal" => t.out.text = Some(node_text(t.node))

C5_Witness ==
  /\ Dumped
  /\ \E t \in DumpTriples :
       /\ t.pat.variant = "Terminal"
       /\ \E i \in 1..Len(node_text(t.node)) : node_text(t.node)[i] = expando_char(node_lang(t.node))
       /\ t.out.text = Some(node_text(t.node))

\* C6 as stated: a MetaVar node's captured text is the source span with every
\* expando character replaced by `$`, and it equals the meta-variable the
\* user wrote in the pattern.
C6_Original ==
  Dumped =>
    \A t \in DumpTriples :
      t.pat.variant = "MetaVar" =>
        /\ t.out.text = Some(replace(node_text(t.node), expando_char(node_lang(t.node)), "$"))
        /\ IsMetaVarText(written(t.node)) => t.out.text = Some(written(t.node))

\* C7: a node's kind label is "MISSING " and the kind name when its Concrete
\* Node is flagged missing, and the plain kind name otherwise.
C7_MissingLabel ==
  Dumped =>
    \A t \in DumpTriples :
      /\ is_missing(t.node) => t.out.kind = "MISSING " \o node_kind(t.node)
      /\ ~is_missing(t.node) => t.out.kind = node_kind(t.node)

\* an inserted node and a sibling that is not inserted, both dumped
C7_Witness ==
  /\ Dumped
  /\ \E t \in DumpTriples :
       /\ Len(t.out.children) >= 2
       /\ \E i, j \in 1..Len(t.out.children) :
            /\ is_missing(node_children(t.node)[i])
            /\ ~is_missing(node_children(t.node)[j])
            /\ t.out.children[i].kind = "MISSING ;"
            /\ t.out.children[j].kind = "identifier"

\* C8: an Internal node has min(pattern children, concrete children)
\* children, the i-th the reconciliation of the i-th pattern child with the
\* i-th concrete child.
C8_ZipChildren ==
  Dumped =>
    \A t \in DumpTriples :
      t.pat.variant = "Internal" =>
        /\ Len(t.out.children) = Min(Len(t.pat.children), Len(node_children(t.node)))
        /\ \A i \in 1..Len(t.out.children) :
             t.out.children[i] = dump_pattern_node(node_children(t.node)[i], t.pat.children[i])

\* the counts differ and the shorter sequence is dumped
C8_Witness ==
  /\ Dumped
  /\ \E t \in DumpTriples :
       /\ t.pat.variant = "Internal"
       /\ Len(t.pat.children) # Len(node_children(t.node))
       /\ Len(t.out.children) >= 1
       /\ Len(t.out.children) = Min(Len(t.pat.children), Len(node_children(t.node)))

\* C9: a node's tag is the variant of its Pattern Node; a MetaVar or Terminal
\* node has no children and carries text; an Internal node carries no text.
C9_ShapeByVariant ==
  Dumped =>
    \A t \in DumpTriples :
      /\ t.out.pattern = Some(t.pat.variant)
      /\ t.pat.variant \in {"MetaVar", "Terminal"} =>
           /\ t.out.children = <<>>
           /\ t.out.text # None
      /\ t.pat.variant = "Internal" => t.out.text = None

\* a MetaVar node whose Concrete Node has children
C9_Witness ==
  /\ Dumped
  /\ \E t \in DumpTriples :
       /\ t.pat.variant = "MetaVar"
       /\ Len(node_children(t.node)) >= 1
       /\ t.out.children = <<>>

\* C10: every node's start and end are the Concrete Node's start and end
\* row and column.
C10_Positions ==
  Dumped =>
    \A t \in DumpTriples :
      /\ t.out.start.line = start_position(t.node).row
      /\ t.out.start.column = start_position(t.node).column
      /\ t.out.end.line = end_position(t.node).row
      /\ t.out.end.column = end_position(t.node).column

\* a child of an Internal node that lies on the second row
C10_Witness ==
  /\ Dumped
  /\ \E t \in DumpTriples :
       /\ t.pat.variant = "Internal"
       /\ \E i \in 1..Len(t.out.children) :
            /\ t.out.children[i].start.line = 1
            /\ t.out.children[i].end.column = 1

====
